---- MODULE Spec2Model ----
(***************************************************************************)
(* Model of the CFU host content-streaming engine                          *)
(* (CfuUpdater::write_data_chunks, src/src/host.rs) together with the      *)
(* wire layout of the content frames (src/src/protocol_definitions.rs).    *)
(*                                                                         *)
(* write_data_chunks is an async function: every .await on the transport   *)
(* or the image is a suspension point, so one call is modelled as a        *)
(* sequence of steps, one per suspension point.  The peer and the image    *)
(* source are external collaborators: every outcome they can produce is a  *)
(* nondeterministic choice.                                                *)
(*                                                                         *)
(* The conversions between the protocol's frames and enums and their bytes *)
(* are pure functions; SpecCodec applies them to bounded sets of inputs.   *)
(***************************************************************************)
EXTENDS Integers, Sequences, FiniteSets, TLC

VARIABLES
    total_bytes,   \* image.get_total_size()
    base_offset,   \* argument base_offset
    cmpt_id,       \* argument cmpt_id
    pc,            \* position inside write_data_chunks
    i,             \* loop index of `for i in 0..num_chunks`
    chunk,         \* the DataChunk buffer of the current iteration
    resp,          \* local `resp`
    result,        \* value returned by write_data_chunks
    offer_cmds,    \* history: initial exchanges handed to the transport
    sent,          \* history: content commands handed to the transport
    nsent,         \* history: number of content commands handed to the transport
    reads,         \* history: image reads issued (offset, length)
    acked,         \* history: content responses received, decoded, Success
    echoed,        \* history: every content response echoed its command's sequence_num
    rx,            \* history: outcome of the latest completed transport round trip
    image_err,     \* history: an image read has failed
    ctype,         \* codec: the type whose conversions are applied
    cfirst,        \* codec: the conversion applied first, "encode" or "decode"
    cstage,        \* codec: number of conversions applied so far
    c0,            \* codec: the input
    c1,            \* codec: result of the first conversion
    c2,            \* codec: result of the second conversion, applied to c1
    primary,       \* client: the primary component handed to prepare_components
    calls,         \* client: history of the calls of the default implementations
    storage_prepare_calls  \* client: history of the storage_prepare() invocations

engine_vars == <<total_bytes, base_offset, cmpt_id, pc, i, chunk, resp, result,
                 offer_cmds, sent, nsent, reads, acked, echoed, rx, image_err>>

codec_vars == <<ctype, cfirst, cstage, c0, c1, c2>>

client_vars == <<primary, calls, storage_prepare_calls>>

vars == <<engine_vars, codec_vars, client_vars>>

----------------------------------------------------------------------------
(* Bounds and input sets                                                   *)

MaxChunks == 3

\* calls of the default implementations per behaviour
MaxCalls == 3

Remainders == {0, 40}

ImageSizes == {k * 52 + r : k \in 0..MaxChunks, r \in Remainders}

BaseOffsets == {0, 100}

ComponentIds == {1, 2}

SeqLoBytes == 0..(MaxChunks + 1)

SeqHiBytes == {0, 1}

StatusBytes == {0, 2, 11, 12}

ReservedFill == {0, 170}

----------------------------------------------------------------------------
(* Program constants                                                       *)

DEFAULT_DATA_LENGTH == 52

FW_UPDATE_FLAG_FIRST_BLOCK == 128

FW_UPDATE_FLAG_LAST_BLOCK == 64

FW_UPDATE_FLAG_NONE == 0

U8 == 256

U16 == 65536

----------------------------------------------------------------------------
(* Wire codec of the content frames                                        *)

Zeros(n) == [k \in 1..n |-> 0]

to_le_bytes_u16(x) == <<x % 256, (x \div 256) % 256>>

\* variant: most significant byte first
to_le_bytes_u32_BigEndian(x) ==
    <<(x \div 16777216) % 256, (x \div 65536) % 256, (x \div 256) % 256, x % 256>>

to_le_bytes_u32(x) ==
    <<x % 256, (x \div 256) % 256, (x \div 65536) % 256, (x \div 16777216) % 256>>

from_le_bytes_u16(b0, b1) == b0 + 256 * b1

\* serialized FwUpdateContentCommand: flags, data_length, sequence_num LE,
\* firmware_address LE, 52 data bytes
SerializeContentCommand(cmd) ==
    <<cmd.header.flags, cmd.header.data_length>>
        \o to_le_bytes_u16(cmd.header.sequence_num)
        \o to_le_bytes_u32(cmd.header.firmware_address)
        \o cmd.data

StatusNames ==
    <<"Success", "ErrorPrepare", "ErrorWrite", "ErrorComplete", "ErrorVerify",
      "ErrorCrc", "ErrorSignature", "ErrorVersion", "SwapPending",
      "ErrorInvalidAddr", "ErrorNoOffer", "ErrorInvalid">>

\* variant: the catch-all arm yields ErrorInvalid instead of an error
StatusTryFrom_Lenient(b) ==
    IF b \in 0..11
        THEN [ok |-> TRUE, status |-> StatusNames[b + 1]]
        ELSE [ok |-> TRUE, status |-> "ErrorInvalid"]

\* CfuUpdateContentResponseStatus::try_from(u8)
StatusTryFrom(b) ==
    IF b \in 0..11
        THEN [ok |-> TRUE, status |-> StatusNames[b + 1]]
        ELSE [ok |-> FALSE, status |-> "ByteConversionError"]

\* FwUpdateContentResponse::new(sequence, status)
NewContentResponse(sequence, status) == [sequence |-> sequence, status |-> status]

\* decoding of a 16-byte FwUpdateContentResponse buffer: bytes 0-1 sequence LE,
\* byte 4 status, everything else reserved and ignored
DeserializeContentResponse(buf) ==
    LET st == StatusTryFrom(buf[5]) IN
    IF st.ok
        THEN [ok |-> TRUE,
              resp |-> NewContentResponse(from_le_bytes_u16(buf[1], buf[2]), st.status)]
        ELSE [ok |-> FALSE, resp |-> NewContentResponse(0, "ErrorInvalid")]

----------------------------------------------------------------------------
(* Error values                                                            *)

CfuWriterErrors == {"StorageError", "ByteConversionError", "Other"}

WriterError(e) == [kind |-> "WriterError", e |-> e]

UpdateError(c) == [kind |-> "UpdateError", cmpt |-> c]

CfuResponseError(s) == [kind |-> "CfuResponseError", status |-> s]

CfuContentUpdateResponseError(s) == [kind |-> "CfuContentUpdateResponseError", status |-> s]

InvalidBlockTransition == [kind |-> "InvalidBlockTransition"]

Ok(r) == [kind |-> "Ok", resp |-> r]

Pending == [kind |-> "Pending"]

----------------------------------------------------------------------------
(* External collaborators                                                  *)

\* the byte the image holds at a byte offset (never zero, so that image bytes
\* and zero padding can be told apart)
ImageByte(off) == (off % 251) + 1

\* image.get_bytes_for_chunk(buf, offset) on success: buf is filled from the
\* image starting at offset; the rest of the chunk keeps its zeros
get_bytes_for_chunk(len, offset) ==
    [k \in 1..DEFAULT_DATA_LENGTH |-> IF k <= len THEN ImageByte(offset + k - 1) ELSE 0]

\* the 16-byte buffers a peer may put into the read-back buffer
MkRespBuf(lo, hi, st, fill) ==
    [k \in 1..16 |-> IF k = 1 THEN lo ELSE IF k = 2 THEN hi ELSE IF k = 5 THEN st ELSE fill]

RespBuffers ==
    {MkRespBuf(lo, hi, st, fill) :
        lo \in SeqLoBytes, hi \in SeqHiBytes, st \in StatusBytes, fill \in ReservedFill}

NoRx == [where |-> "none", err |-> "none", buf |-> Zeros(16)]

----------------------------------------------------------------------------
(* write_data_chunks                                                       *)

num_chunks == total_bytes \div DEFAULT_DATA_LENGTH

remainder == total_bytes % DEFAULT_DATA_LENGTH

\* the arm of `match i` taken in iteration idx of `for i in 0..n`
MatchArm(idx, n) ==
    IF idx = 0 THEN "first"
    ELSE IF idx < n THEN "middle"
    ELSE "last"

\* number of bytes requested from the image in each arm
ReadLen(arm) == IF arm = "last" THEN remainder ELSE DEFAULT_DATA_LENGTH

\* variant: the image is addressed from its own start
address_offset_NoBase(idx) == idx * DEFAULT_DATA_LENGTH

address_offset(idx) == idx * DEFAULT_DATA_LENGTH + base_offset

process_first_data_block(data) ==
    [mem_offset |-> 0,
     bytes |-> SerializeContentCommand(
        [header |-> [sequence_num |-> 0,
                     data_length |-> DEFAULT_DATA_LENGTH % U8,
                     flags |-> FW_UPDATE_FLAG_FIRST_BLOCK,
                     firmware_address |-> 0],
         data |-> data])]

\* variant: the sequence number stops at the largest u16 instead of wrapping
process_middle_data_block_Saturate(data, seq_num) ==
    [mem_offset |-> seq_num * DEFAULT_DATA_LENGTH,
     bytes |-> SerializeContentCommand(
        [header |-> [sequence_num |-> IF seq_num >= U16 THEN U16 - 1 ELSE seq_num,
                     data_length |-> DEFAULT_DATA_LENGTH % U8,
                     flags |-> FW_UPDATE_FLAG_NONE,
                     firmware_address |-> 0],
         data |-> data])]

process_middle_data_block(data, seq_num) ==
    [mem_offset |-> seq_num * DEFAULT_DATA_LENGTH,
     bytes |-> SerializeContentCommand(
        [header |-> [sequence_num |-> seq_num % U16,
                     data_length |-> DEFAULT_DATA_LENGTH % U8,
                     flags |-> FW_UPDATE_FLAG_NONE,
                     firmware_address |-> 0],
         data |-> data])]

process_last_data_block(data, seq_num) ==
    [mem_offset |-> seq_num * DEFAULT_DATA_LENGTH,
     bytes |-> SerializeContentCommand(
        [header |-> [sequence_num |-> seq_num % U16,
                     data_length |-> DEFAULT_DATA_LENGTH % U8,
                     flags |-> FW_UPDATE_FLAG_LAST_BLOCK,
                     firmware_address |-> 0],
         data |-> data])]

\* the command built by the arm taken in iteration idx
BlockCommand(idx, data) ==
    LET arm == MatchArm(idx, num_chunks) IN
    IF arm = "first" THEN process_first_data_block(data)
    ELSE IF arm = "middle" THEN process_middle_data_block(data, idx)
    ELSE process_last_data_block(data, idx)

\* variant: the initial exchange drops the error kind as the block exchanges do
OfferTransportError_DropKind(e) == WriterError("StorageError")

\* error mapping of a failed initial exchange: map_err(CfuProtocolError::WriterError)
OfferTransportError(e) == WriterError(e)

\* error mapping of a failed block exchange:
\* map_err(|_| CfuWriterError::StorageError) then map_err(CfuProtocolError::WriterError)
BlockTransportError(e) == WriterError("StorageError")

\* variant: the peer's status is carried in the error
BlockStatusError_Carry(c, s) == CfuContentUpdateResponseError(s)

\* error returned when a block response decodes with a non-Success status
BlockStatusError(c, s) == UpdateError(c)

\* variant: the status of a response is never looked at
StatusIsSuccess_Always(s) == TRUE

\* `r.status != CfuOfferResponseStatus::Success` is false
StatusIsSuccess(s) == s = "Success"

\* variant: the last response is compared with the index of the last chunk sent
ExpectedSequence_LastIndex(n) == (n - 1) % U16

\* the value the last response's sequence is compared with: num_chunks as u16
ExpectedSequence(n) == n % U16

Finish(r) ==
    /\ pc' = "done"
    /\ result' = r

\* no conversion is being applied
NoValue == [ok |-> FALSE, val |-> 0, err |-> "none"]

CodecIdle ==
    /\ ctype = "none"
    /\ cfirst = "none"
    /\ cstage = 0
    /\ c0 = 0
    /\ c1 = NoValue
    /\ c2 = NoValue

\* no default implementation of the client side has been called
ClientIdle ==
    /\ primary = [id |-> 1, subcomponents |-> {}]
    /\ calls = << >>
    /\ storage_prepare_calls = << >>

\* variant: the initial exchange is addressed to offset 0
WriteOfferCmd_AtZero ==
    /\ pc = "start"
    /\ offer_cmds' = Append(offer_cmds, [mem_offset |-> 0, bytes |-> Zeros(16)])
    /\ pc' = "await_offer"
    /\ UNCHANGED <<codec_vars, client_vars>>
    /\ UNCHANGED <<total_bytes, base_offset, cmpt_id, i, chunk, resp, result,
                   sent, nsent, reads, acked, echoed, rx, image_err>>

\* writer.cfu_write_read(Some(base_offset), &[0u8; 16], &mut offer_resp) is started
WriteOfferCmd ==
    /\ pc = "start"
    /\ offer_cmds' = Append(offer_cmds, [mem_offset |-> base_offset, bytes |-> Zeros(16)])
    /\ pc' = "await_offer"
    /\ UNCHANGED <<codec_vars, client_vars>>
    /\ UNCHANGED <<total_bytes, base_offset, cmpt_id, i, chunk, resp, result,
                   sent, nsent, reads, acked, echoed, rx, image_err>>

\* the initial exchange completes; its response is decoded and checked
OfferResponse ==
    /\ pc = "await_offer"
    /\ \/ \E e \in CfuWriterErrors :
            /\ rx' = [where |-> "offer", err |-> e, buf |-> Zeros(16)]
            /\ Finish(OfferTransportError(e))
            /\ UNCHANGED <<i, resp>>
       \/ \E buf \in RespBuffers :
            LET deser == DeserializeContentResponse(buf) IN
            /\ rx' = [where |-> "offer", err |-> "none", buf |-> buf]
            /\ IF ~deser.ok
                 THEN Finish(WriterError("ByteConversionError")) /\ UNCHANGED <<i, resp>>
                 ELSE IF ~StatusIsSuccess(deser.resp.status)
                   THEN Finish(CfuResponseError(deser.resp.status)) /\ UNCHANGED <<i, resp>>
                   ELSE /\ resp' = NewContentResponse(0, "ErrorInvalid")
                        /\ i' = 0
                        /\ pc' = "loop"
                        /\ UNCHANGED result
    /\ UNCHANGED <<codec_vars, client_vars>>
    /\ UNCHANGED <<total_bytes, base_offset, cmpt_id, chunk,
                   offer_cmds, sent, nsent, reads, acked, echoed, image_err>>

\* one iteration starts: the chunk buffer is zeroed and the image is read
ReadChunk ==
    /\ pc = "loop"
    /\ i < num_chunks
    /\ LET len == ReadLen(MatchArm(i, num_chunks)) IN
       /\ reads' = Append(reads, [offset |-> address_offset(i), len |-> len])
       /\ \/ /\ chunk' = get_bytes_for_chunk(len, address_offset(i))
             /\ pc' = "send"
             /\ UNCHANGED <<result, image_err>>
          \/ /\ chunk' = Zeros(DEFAULT_DATA_LENGTH)
             /\ image_err' = TRUE
             /\ Finish(WriterError("StorageError"))
    /\ UNCHANGED <<codec_vars, client_vars>>
    /\ UNCHANGED <<total_bytes, base_offset, cmpt_id, i, resp,
                   offer_cmds, sent, nsent, acked, echoed, rx>>

\* variant: the command is handed over and the loop goes on without its response
SendBlock_NoAwait ==
    /\ pc = "send"
    /\ sent' = Append(sent, BlockCommand(i, chunk))
    /\ nsent' = nsent + 1
    /\ i' = i + 1
    /\ pc' = "loop"
    /\ UNCHANGED <<codec_vars, client_vars>>
    /\ UNCHANGED <<total_bytes, base_offset, cmpt_id, chunk, resp, result,
                   offer_cmds, reads, acked, echoed, rx, image_err>>

\* the command of this iteration is built, serialized and handed to the transport
SendBlock ==
    /\ pc = "send"
    /\ sent' = Append(sent, BlockCommand(i, chunk))
    /\ nsent' = nsent + 1
    /\ pc' = "await_block"
    /\ UNCHANGED <<codec_vars, client_vars>>
    /\ UNCHANGED <<total_bytes, base_offset, cmpt_id, i, chunk, resp, result,
                   offer_cmds, reads, acked, echoed, rx, image_err>>

\* the block exchange completes; its response is decoded and checked
BlockResponse ==
    /\ pc = "await_block"
    /\ \/ \E e \in CfuWriterErrors :
            /\ rx' = [where |-> "block", err |-> e, buf |-> Zeros(16)]
            /\ Finish(BlockTransportError(e))
            /\ UNCHANGED <<i, resp, acked, echoed>>
       \/ \E buf \in RespBuffers :
            LET deser == DeserializeContentResponse(buf) IN
            /\ rx' = [where |-> "block", err |-> "none", buf |-> buf]
            /\ IF ~deser.ok
                 THEN /\ Finish(WriterError("ByteConversionError"))
                      /\ UNCHANGED <<i, resp, acked, echoed>>
                 ELSE IF ~StatusIsSuccess(deser.resp.status)
                   THEN /\ Finish(BlockStatusError(cmpt_id, deser.resp.status))
                        /\ UNCHANGED <<i, resp, acked, echoed>>
                   ELSE /\ resp' = deser.resp
                        /\ i' = i + 1
                        /\ acked' = acked + 1
                        /\ echoed' = (echoed /\ deser.resp.sequence = i % U16)
                        /\ pc' = "loop"
                        /\ UNCHANGED result
    /\ UNCHANGED <<codec_vars, client_vars>>
    /\ UNCHANGED <<total_bytes, base_offset, cmpt_id, chunk,
                   offer_cmds, sent, nsent, reads, image_err>>

\* the loop is over: the final sequence check and the return
FinalCheck ==
    /\ pc = "loop"
    /\ i >= num_chunks
    /\ IF resp.sequence # ExpectedSequence(num_chunks)
         THEN Finish(InvalidBlockTransition)
         ELSE Finish(Ok(resp))
    /\ UNCHANGED <<codec_vars, client_vars>>
    /\ UNCHANGED <<total_bytes, base_offset, cmpt_id, i, chunk, resp,
                   offer_cmds, sent, nsent, reads, acked, echoed, rx, image_err>>

Init ==
    /\ total_bytes \in ImageSizes
    /\ base_offset \in BaseOffsets
    /\ cmpt_id \in ComponentIds
    /\ pc = "start"
    /\ i = 0
    /\ chunk = Zeros(DEFAULT_DATA_LENGTH)
    /\ resp = NewContentResponse(0, "ErrorInvalid")
    /\ result = Pending
    /\ offer_cmds = << >>
    /\ sent = << >>
    /\ nsent = 0
    /\ reads = << >>
    /\ acked = 0
    /\ echoed = TRUE
    /\ rx = NoRx
    /\ image_err = FALSE
    /\ CodecIdle
    /\ ClientIdle

Next ==
    \/ WriteOfferCmd
    \/ OfferResponse
    \/ ReadChunk
    \/ SendBlock
    \/ BlockResponse
    \/ FinalCheck

Spec == Init /\ [][Next]_vars

----------------------------------------------------------------------------
(* Images of 65536 chunks and more.  The loop of such an image cannot be   *)
(* unrolled from its start, so the behaviours of SpecLarge may also start  *)
(* in the state the call is in when the last iteration of such an image    *)
(* begins, after a peer that answered Success and echoed every             *)
(* sequence_num.  There the histories sent and reads hold what happened    *)
(* since that state; nsent and acked count from the start of the call.     *)

LargeChunkCounts == {U16, U16 + 1}

LargeImageSizes == {n * DEFAULT_DATA_LENGTH + r : n \in LargeChunkCounts, r \in Remainders}

InitLarge ==
    /\ total_bytes \in LargeImageSizes
    /\ base_offset \in BaseOffsets
    /\ cmpt_id \in ComponentIds
    /\ pc = "loop"
    /\ i = num_chunks - 1
    /\ chunk = get_bytes_for_chunk(DEFAULT_DATA_LENGTH, address_offset(i - 1))
    /\ resp = NewContentResponse((i - 1) % U16, "Success")
    /\ result = Pending
    /\ offer_cmds = <<[mem_offset |-> base_offset, bytes |-> Zeros(16)]>>
    /\ sent = << >>
    /\ nsent = i
    /\ reads = << >>
    /\ acked = i
    /\ echoed = TRUE
    /\ rx = [where |-> "block", err |-> "none",
             buf |-> MkRespBuf(((i - 1) % U16) % 256, ((i - 1) % U16) \div 256, 0, 0)]
    /\ image_err = FALSE
    /\ CodecIdle
    /\ ClientIdle

SpecLarge == (Init \/ InitLarge) /\ [][Next]_vars

----------------------------------------------------------------------------
(* Wire codec of the protocol enums and frames                             *)
(* (src/src/protocol_definitions.rs).  A conversion is a pure function; it *)
(* is applied to an input drawn in InitCodec, and the opposite conversion  *)
(* is then applied to what the first one returned.                         *)

\* Result values of the conversions
OkR(v) == [ok |-> TRUE, val |-> v, err |-> "none"]

ErrR(e) == [ok |-> FALSE, val |-> 0, err |-> e]

\* enum values: a unit variant, and the variant that carries a byte
Unit(tag) == [tag |-> tag, val |-> 0]

VendorSpecific(v) == [tag |-> "VendorSpecific", val |-> v]

Bytes == 0..(U8 - 1)

\* impl From<HostToken> for u8
HostToken_into_u8(token) ==
    CASE token.tag = "Driver" -> 160
      [] token.tag = "Tool" -> 176
      [] OTHER -> token.val

\* variant: only the Driver byte is given a name
HostToken_try_from_NoTool(value) ==
    IF value = 160 THEN OkR(Unit("Driver"))
    ELSE OkR(VendorSpecific(value))

\* impl TryFrom<u8> for HostToken
HostToken_try_from(value) ==
    IF value = 160 THEN OkR(Unit("Driver"))
    ELSE IF value = 176 THEN OkR(Unit("Tool"))
    ELSE OkR(VendorSpecific(value))

\* impl From<OfferRejectReason> for u8
OfferRejectReason_into_u8(value) ==
    CASE value.tag = "OldFw" -> 0
      [] value.tag = "InvalidComponent" -> 1
      [] value.tag = "SwapPending" -> 2
      [] OTHER -> value.val

\* variant: the vendor range starts one byte later
OfferRejectReason_try_from_Above(value) ==
    IF value = 0 THEN OkR(Unit("OldFw"))
    ELSE IF value = 1 THEN OkR(Unit("InvalidComponent"))
    ELSE IF value = 2 THEN OkR(Unit("SwapPending"))
    ELSE IF value > 224 THEN OkR(VendorSpecific(value))
    ELSE ErrR("ValueOutOfRange")

\* impl TryFrom<u8> for OfferRejectReason
OfferRejectReason_try_from(value) ==
    IF value = 0 THEN OkR(Unit("OldFw"))
    ELSE IF value = 1 THEN OkR(Unit("InvalidComponent"))
    ELSE IF value = 2 THEN OkR(Unit("SwapPending"))
    ELSE IF value >= 224 THEN OkR(VendorSpecific(value))
    ELSE ErrR("ValueOutOfRange")

\* impl From<OfferStatus> for u8
OfferStatus_into_u8(value) ==
    CASE value.tag = "Skip" -> 0
      [] value.tag = "Accept" -> 1
      [] value.tag = "Reject" -> 2
      [] value.tag = "Busy" -> 3
      [] value.tag = "CommandReady" -> 4
      [] value.tag = "CmdNotSupported" -> 255

\* variant: the catch-all arm reports the other error kind
OfferStatus_try_from_OutOfRange(value) ==
    CASE value = 0 -> OkR(Unit("Skip"))
      [] value = 1 -> OkR(Unit("Accept"))
      [] value = 2 -> OkR(Unit("Reject"))
      [] value = 3 -> OkR(Unit("Busy"))
      [] value = 4 -> OkR(Unit("CommandReady"))
      [] value = 255 -> OkR(Unit("CmdNotSupported"))
      [] OTHER -> ErrR("ValueOutOfRange")

\* impl TryFrom<u8> for OfferStatus
OfferStatus_try_from(value) ==
    CASE value = 0 -> OkR(Unit("Skip"))
      [] value = 1 -> OkR(Unit("Accept"))
      [] value = 2 -> OkR(Unit("Reject"))
      [] value = 3 -> OkR(Unit("Busy"))
      [] value = 4 -> OkR(Unit("CommandReady"))
      [] value = 255 -> OkR(Unit("CmdNotSupported"))
      [] OTHER -> ErrR("ByteConversionError")

\* every value of the enums
HostTokenValues == {Unit("Driver"), Unit("Tool")} \cup {VendorSpecific(v) : v \in Bytes}

OfferRejectReasonValues ==
    {Unit("OldFw"), Unit("InvalidComponent"), Unit("SwapPending")}
        \cup {VendorSpecific(v) : v \in Bytes}

OfferStatusValues ==
    {Unit("Skip"), Unit("Accept"), Unit("Reject"), Unit("Busy"),
     Unit("CommandReady"), Unit("CmdNotSupported")}

from_le_bytes_u32(b0, b1, b2, b3) == b0 + 256 * b1 + 65536 * b2 + 16777216 * b3

\* SpecialComponentIds as u8
SpecialComponentIds_as_u8(id) == IF id = "Command" THEN 254 ELSE 255

\* impl TryFrom<u8> for SpecialComponentIds
SpecialComponentIds_try_from(value) ==
    IF value = 254 THEN OkR("Command")
    ELSE IF value = 255 THEN OkR("Info")
    ELSE ErrR("ValueOutOfRange")

\* UpdateOfferComponentInfoByte1::force_ignore_version
force_ignore_version(byte1) == (byte1.packed_byte \div 128) % 2 = 1

\* UpdateOfferComponentInfoByte1::force_reset
force_reset(byte1) == (byte1.packed_byte \div 64) % 2 = 1

\* variant: the reserved bits of byte 1 are cleared on the way out
FwUpdateOffer_into_bytes_Masked(command) ==
    <<command.component_info.segment_number,
      (command.component_info.byte1.packed_byte \div 64) * 64,
      command.component_info.component_id,
      HostToken_into_u8(command.component_info.token),
      command.firmware_version.variant>>
        \o to_le_bytes_u16(command.firmware_version.minor)
        \o <<command.firmware_version.major>>
        \o to_le_bytes_u32(command.vendor_specific)
        \o to_le_bytes_u32(command.misc_and_protocol_version)
        \o Zeros(16)

\* impl From<&FwUpdateOffer> for [u8; 32]
FwUpdateOffer_into_bytes(command) ==
    <<command.component_info.segment_number,
      command.component_info.byte1.packed_byte,
      command.component_info.component_id,
      HostToken_into_u8(command.component_info.token),
      command.firmware_version.variant>>
        \o to_le_bytes_u16(command.firmware_version.minor)
        \o <<command.firmware_version.major>>
        \o to_le_bytes_u32(command.vendor_specific)
        \o to_le_bytes_u32(command.misc_and_protocol_version)
        \o Zeros(16)

\* impl TryFrom<&[u8; 32]> for FwUpdateOffer (bytes[k] of the source is bytes[k + 1])
FwUpdateOffer_try_from(bytes) ==
    LET token == HostToken_try_from(bytes[4]) IN
    IF ~token.ok THEN ErrR("ByteConversionError")
    ELSE OkR([component_info |->
                  [segment_number |-> bytes[1],
                   byte1 |-> [packed_byte |-> bytes[2]],
                   component_id |-> bytes[3],
                   token |-> token.val],
              firmware_version |->
                  [major |-> bytes[8],
                   minor |-> from_le_bytes_u16(bytes[6], bytes[7]),
                   variant |-> bytes[5]],
              vendor_specific |-> from_le_bytes_u32(bytes[9], bytes[10], bytes[11], bytes[12]),
              misc_and_protocol_version |->
                  from_le_bytes_u32(bytes[13], bytes[14], bytes[15], bytes[16])])

\* impl From<OfferInformationCodeValues> for u8
OfferInformationCodeValues_into_u8(value) ==
    CASE value.tag = "StartEntireTransaction" -> 0
      [] value.tag = "StartOfferList" -> 1
      [] value.tag = "EndOfferList" -> 2
      [] OTHER -> value.val

\* impl From<&FwUpdateOfferInformation> for [u8; 16]
FwUpdateOfferInformation_into_bytes(info) ==
    <<OfferInformationCodeValues_into_u8(info.component_info.code),
      0,
      SpecialComponentIds_as_u8(info.component_info.component_id),
      HostToken_into_u8(info.component_info.token)>>
        \o Zeros(12)

\* variant: either special component id is accepted
FwUpdateOfferInformation_try_from_AnyId(bytes) ==
    LET component_id == SpecialComponentIds_try_from(bytes[3])
        token == HostToken_try_from(bytes[4])
    IN
    IF bytes[1] \notin {0, 1, 2} THEN ErrR("ValueOutOfRange")
    ELSE IF ~component_id.ok THEN ErrR("ValueOutOfRange")
    ELSE IF ~token.ok THEN ErrR(token.err)
    ELSE OkR([component_info |->
                  [code |-> Unit(<<"StartEntireTransaction", "StartOfferList",
                                   "EndOfferList">>[bytes[1] + 1]),
                   reserved |-> 0,
                   component_id |-> component_id.val,
                   token |-> token.val],
              reserved0 |-> 0,
              reserved1 |-> 0,
              reserved2 |-> 0])

\* impl TryFrom<&[u8; 16]> for FwUpdateOfferInformation
FwUpdateOfferInformation_try_from(bytes) ==
    LET component_id == SpecialComponentIds_try_from(bytes[3])
        token == HostToken_try_from(bytes[4])
    IN
    IF bytes[1] \notin {0, 1, 2} THEN ErrR("ValueOutOfRange")
    ELSE IF ~component_id.ok THEN ErrR("ValueOutOfRange")
    ELSE IF component_id.val # "Info" THEN ErrR("ValueOutOfRange")
    ELSE IF ~token.ok THEN ErrR(token.err)
    ELSE OkR([component_info |->
                  [code |-> Unit(<<"StartEntireTransaction", "StartOfferList",
                                   "EndOfferList">>[bytes[1] + 1]),
                   reserved |-> 0,
                   component_id |-> component_id.val,
                   token |-> token.val],
              reserved0 |-> 0,
              reserved1 |-> 0,
              reserved2 |-> 0])

\* impl From<OfferCommandExtendedCodeValues> for u8
OfferCommandExtendedCodeValues_into_u8(value) ==
    IF value.tag = "OfferNotifyOnReady" THEN 1 ELSE value.val

\* impl From<u8> for OfferCommandExtendedCodeValues
OfferCommandExtendedCodeValues_from(value) ==
    IF value = 1 THEN Unit("OfferNotifyOnReady") ELSE VendorSpecific(value)

\* impl From<&FwUpdateOfferExtended> for [u8; 16]
FwUpdateOfferExtended_into_bytes(command) ==
    <<OfferCommandExtendedCodeValues_into_u8(command.component_info.code),
      0,
      SpecialComponentIds_as_u8(command.component_info.component_id),
      HostToken_into_u8(command.component_info.token)>>
        \o Zeros(12)

\* variant: either special component id is accepted
FwUpdateOfferExtended_try_from_AnyId(bytes) ==
    LET component_id == SpecialComponentIds_try_from(bytes[3])
        token == HostToken_try_from(bytes[4])
    IN
    IF ~component_id.ok THEN ErrR("ValueOutOfRange")
    ELSE IF ~token.ok THEN ErrR(token.err)
    ELSE OkR([component_info |->
                  [code |-> OfferCommandExtendedCodeValues_from(bytes[1]),
                   reserved |-> 0,
                   component_id |-> component_id.val,
                   token |-> token.val],
              reserved0 |-> 0,
              reserved1 |-> 0,
              reserved2 |-> 0])

\* impl TryFrom<&[u8; 16]> for FwUpdateOfferExtended
FwUpdateOfferExtended_try_from(bytes) ==
    LET component_id == SpecialComponentIds_try_from(bytes[3])
        token == HostToken_try_from(bytes[4])
    IN
    IF ~component_id.ok THEN ErrR("ValueOutOfRange")
    ELSE IF component_id.val # "Command" THEN ErrR("ValueOutOfRange")
    ELSE IF ~token.ok THEN ErrR(token.err)
    ELSE OkR([component_info |->
                  [code |-> OfferCommandExtendedCodeValues_from(bytes[1]),
                   reserved |-> 0,
                   component_id |-> component_id.val,
                   token |-> token.val],
              reserved0 |-> 0,
              reserved1 |-> 0,
              reserved2 |-> 0])

\* impl TryFrom<&[u8; 60]> for FwUpdateContentCommand
FwUpdateContentCommand_try_from(bytes) ==
    OkR([header |->
             [flags |-> bytes[1],
              data_length |-> bytes[2],
              sequence_num |-> from_le_bytes_u16(bytes[3], bytes[4]),
              firmware_address |-> from_le_bytes_u32(bytes[5], bytes[6], bytes[7], bytes[8])],
         data |-> [k \in 1..DEFAULT_DATA_LENGTH |-> bytes[8 + k]]])

\* variant: the first reserved field is copied out as stored
FwUpdateOfferResponse_into_bytes_Residue(response) ==
    response.reserved0 \o <<HostToken_into_u8(response.token)>>
        \o Zeros(4) \o <<OfferRejectReason_into_u8(response.reject_reason)>>
        \o Zeros(3) \o <<OfferStatus_into_u8(response.status)>>
        \o Zeros(3)

\* impl From<&FwUpdateOfferResponse> for [u8; 16]
FwUpdateOfferResponse_into_bytes(response) ==
    Zeros(3) \o <<HostToken_into_u8(response.token)>>
        \o Zeros(4) \o <<OfferRejectReason_into_u8(response.reject_reason)>>
        \o Zeros(3) \o <<OfferStatus_into_u8(response.status)>>
        \o Zeros(3)

\* variant: the reject reason is validated only when the status is Reject
FwUpdateOfferResponse_try_from_ReasonIfReject(buffer) ==
    LET token == HostToken_try_from(buffer[4])
        reject_reason == OfferRejectReason_try_from(buffer[9])
        status == OfferStatus_try_from(buffer[13])
    IN
    IF ~token.ok THEN ErrR("ByteConversionError")
    ELSE IF ~status.ok THEN ErrR("ByteConversionError")
    ELSE IF ~reject_reason.ok /\ status.val = Unit("Reject") THEN ErrR("ByteConversionError")
    ELSE OkR([token |-> token.val,
              reject_reason |-> IF reject_reason.ok THEN reject_reason.val ELSE Unit("OldFw"),
              status |-> status.val,
              reserved0 |-> Zeros(3),
              reserved1 |-> Zeros(4),
              reserved2 |-> Zeros(3),
              reserved3 |-> Zeros(3)])

\* impl TryFrom<[u8; 16]> for FwUpdateOfferResponse
FwUpdateOfferResponse_try_from(buffer) ==
    LET token == HostToken_try_from(buffer[4])
        reject_reason == OfferRejectReason_try_from(buffer[9])
        status == OfferStatus_try_from(buffer[13])
    IN
    IF ~token.ok THEN ErrR("ByteConversionError")
    ELSE IF ~reject_reason.ok THEN ErrR("ByteConversionError")
    ELSE IF ~status.ok THEN ErrR("ByteConversionError")
    ELSE OkR([token |-> token.val,
              reject_reason |-> reject_reason.val,
              status |-> status.val,
              reserved0 |-> Zeros(3),
              reserved1 |-> Zeros(4),
              reserved2 |-> Zeros(3),
              reserved3 |-> Zeros(3)])

\* impl From<CfuUpdateContentResponseStatus> for u8
CfuUpdateContentResponseStatus_into_u8(status) ==
    CHOOSE b \in 0..11 : StatusNames[b + 1] = status

\* impl From<&FwUpdateContentResponse> for [u8; 16]
FwUpdateContentResponse_into_bytes(response) ==
    to_le_bytes_u16(response.sequence)
        \o Zeros(2) \o <<CfuUpdateContentResponseStatus_into_u8(response.status)>>
        \o Zeros(11)

\* impl TryFrom<[u8; 16]> for FwUpdateContentResponse, with the private fields
FwUpdateContentResponse_try_from(buffer) ==
    LET status == StatusTryFrom(buffer[5]) IN
    IF ~status.ok THEN ErrR("ByteConversionError")
    ELSE OkR([sequence |-> from_le_bytes_u16(buffer[1], buffer[2]),
              reserved0 |-> 0,
              status |-> status.status,
              reserved1 |-> Zeros(11)])

MAX_CMPT_COUNT == 7

\* FwVerComponentInfo::default()
FwVerComponentInfo_default ==
    [fw_version |-> [variant |-> 0, minor |-> 0, major |-> 0],
     packed_byte |-> 0,
     component_id |-> 0,
     vendor_specific1 |-> 0]

\* GetFwVerRespHeaderByte3 as u8
GetFwVerRespHeaderByte3_as_u8(byte3) == IF byte3 = "NoSpecialFlags" THEN 32 ELSE 33

\* the eight bytes one component entry is serialized to
ComponentBytes(component) ==
    <<component.packed_byte, component.component_id>>
        \o to_le_bytes_u16(component.vendor_specific1)
        \o <<component.fw_version.major>>
        \o to_le_bytes_u16(component.fw_version.minor)
        \o <<component.fw_version.variant>>

\* variant: a count above the array length is cut down to the array length
GetFwVersionResponse_try_into_bytes_Clamp(response) ==
    OkR(<<response.header.component_count>>
            \o to_le_bytes_u16(response.header.reserved)
            \o <<GetFwVerRespHeaderByte3_as_u8(response.header.byte3)>>
            \o [k \in 1..(8 * MAX_CMPT_COUNT) |->
                  LET idx == ((k - 1) \div 8) + 1 IN
                  IF idx <= response.header.component_count
                      THEN ComponentBytes(response.component_info[idx])[((k - 1) % 8) + 1]
                      ELSE 0])

\* impl TryFrom<&GetFwVersionResponse> for [u8; 60]: the loop over
\* 0..component_count stops with an error at the first index for which
\* component_info.get(i) is None, that is when component_count exceeds the
\* array length; entries at index >= component_count are not written
GetFwVersionResponse_try_into_bytes(response) ==
    IF response.header.component_count > MAX_CMPT_COUNT
        THEN ErrR("ByteConversionError")
        ELSE OkR(<<response.header.component_count>>
                    \o to_le_bytes_u16(response.header.reserved)
                    \o <<GetFwVerRespHeaderByte3_as_u8(response.header.byte3)>>
                    \o [k \in 1..(8 * MAX_CMPT_COUNT) |->
                          LET idx == ((k - 1) \div 8) + 1 IN
                          IF idx <= response.header.component_count
                              THEN ComponentBytes(response.component_info[idx])[((k - 1) % 8) + 1]
                              ELSE 0])

\* the component entry read from the eight bytes that start at bytes[offset]
\* of the source (bytes[offset + 1] here)
ComponentFromBytes(bytes, offset) ==
    [fw_version |->
         [variant |-> bytes[offset + 8],
          minor |-> from_le_bytes_u16(bytes[offset + 6], bytes[offset + 7]),
          major |-> bytes[offset + 5]],
     packed_byte |-> bytes[offset + 1],
     component_id |-> bytes[offset + 2],
     vendor_specific1 |-> from_le_bytes_u16(bytes[offset + 3], bytes[offset + 4])]

\* variant: every entry is read, whatever component_count says
GetFwVersionResponse_try_from_ReadAll(bytes) ==
    IF bytes[1] > MAX_CMPT_COUNT THEN ErrR("ValueOutOfRange")
    ELSE IF bytes[4] \notin {32, 33} THEN ErrR("ValueOutOfRange")
    ELSE OkR([header |->
                  [component_count |-> bytes[1],
                   reserved |-> from_le_bytes_u16(bytes[2], bytes[3]),
                   byte3 |-> IF bytes[4] = 32 THEN "NoSpecialFlags" ELSE "ExtensionFlagSet"],
              component_info |->
                  [idx \in 1..MAX_CMPT_COUNT |-> ComponentFromBytes(bytes, 4 + 8 * (idx - 1))]])

\* impl TryFrom<&[u8; 60]> for GetFwVersionResponse
GetFwVersionResponse_try_from(bytes) ==
    IF bytes[1] > MAX_CMPT_COUNT THEN ErrR("ValueOutOfRange")
    ELSE IF bytes[4] \notin {32, 33} THEN ErrR("ValueOutOfRange")
    ELSE OkR([header |->
                  [component_count |-> bytes[1],
                   reserved |-> from_le_bytes_u16(bytes[2], bytes[3]),
                   byte3 |-> IF bytes[4] = 32 THEN "NoSpecialFlags" ELSE "ExtensionFlagSet"],
              component_info |->
                  [idx \in 1..MAX_CMPT_COUNT |->
                      IF idx <= bytes[1]
                          THEN ComponentFromBytes(bytes, 4 + 8 * (idx - 1))
                          ELSE FwVerComponentInfo_default]])

----------------------------------------------------------------------------
(* Inputs of the conversions: for the enums every byte and every value,    *)
(* for the frames buffers and values built from the bytes and field values *)
(* that the conversions tell apart.                                        *)

TokenBytes == {0, 160, 176, 254}

TokenSamples ==
    {Unit("Driver"), Unit("Tool"), VendorSpecific(0), VendorSpecific(160), VendorSpecific(254)}

RejectReasonBytes == {0, 1, 2, 3, 223, 224, 255}

RejectReasonSamples ==
    {Unit("OldFw"), Unit("InvalidComponent"), Unit("SwapPending"),
     VendorSpecific(0), VendorSpecific(3), VendorSpecific(223),
     VendorSpecific(224), VendorSpecific(255)}

OfferStatusBytes == {0, 1, 4, 5, 254, 255}

\* a byte that depends on its position, never zero
PatternByte(k) == ((k * 7) % 255) + 1

FwVersionSamples ==
    {[variant |-> 0, minor |-> 0, major |-> 0],
     [variant |-> 3, minor |-> 4660, major |-> 2]}

OfferValues ==
    {[component_info |->
          [segment_number |-> seg,
           byte1 |-> [packed_byte |-> pb],
           component_id |-> 1,
           token |-> tok],
      firmware_version |-> ver,
      vendor_specific |-> w,
      misc_and_protocol_version |-> (w \div 2)] :
        seg \in {0, 5}, pb \in {0, 192, 63, 255}, tok \in TokenSamples,
        ver \in FwVersionSamples, w \in {0, 305419896}}

OfferBuffers ==
    {[k \in 1..32 |->
         IF k = 1 THEN seg
         ELSE IF k = 2 THEN pb
         ELSE IF k = 4 THEN tok
         ELSE IF k <= 16 THEN (IF pat THEN PatternByte(k) ELSE 0)
         ELSE fill] :
        seg \in {0, 5}, pb \in {0, 192, 63, 255}, tok \in TokenBytes,
        pat \in BOOLEAN, fill \in ReservedFill}

OfferInformationValues ==
    {[component_info |->
          [code |-> code, reserved |-> r, component_id |-> id, token |-> tok],
      reserved0 |-> r, reserved1 |-> r, reserved2 |-> r] :
        code \in {Unit("StartEntireTransaction"), Unit("StartOfferList"),
                  Unit("EndOfferList"), VendorSpecific(0), VendorSpecific(3),
                  VendorSpecific(255)},
        r \in ReservedFill, id \in {"Command", "Info"}, tok \in TokenSamples}

OfferInformationBuffers ==
    {[k \in 1..16 |->
         IF k = 1 THEN code
         ELSE IF k = 3 THEN id
         ELSE IF k = 4 THEN tok
         ELSE fill] :
        code \in {0, 1, 2, 3, 255}, id \in {1, 254, 255}, tok \in TokenBytes,
        fill \in ReservedFill}
    \cup
    {[k \in 1..16 |-> IF k = 1 THEN code ELSE IF k = 3 THEN 255 ELSE 0] : code \in Bytes}
    \cup
    {[k \in 1..16 |-> IF k = 3 THEN id ELSE 0] : id \in Bytes}

OfferExtendedValues ==
    {[component_info |->
          [code |-> code, reserved |-> r, component_id |-> id, token |-> tok],
      reserved0 |-> r, reserved1 |-> r, reserved2 |-> r] :
        code \in {Unit("OfferNotifyOnReady"), VendorSpecific(0), VendorSpecific(1),
                  VendorSpecific(255)},
        r \in ReservedFill, id \in {"Command", "Info"}, tok \in TokenSamples}

OfferExtendedBuffers ==
    {[k \in 1..16 |->
         IF k = 1 THEN code
         ELSE IF k = 3 THEN id
         ELSE IF k = 4 THEN tok
         ELSE fill] :
        code \in {0, 1, 2, 255}, id \in {1, 254, 255}, tok \in TokenBytes,
        fill \in ReservedFill}
    \cup
    {[k \in 1..16 |-> IF k = 1 THEN 1 ELSE IF k = 3 THEN id ELSE 0] : id \in Bytes}

ContentCommandValues ==
    {[header |->
          [flags |-> f, data_length |-> len, sequence_num |-> seq, firmware_address |-> a],
      data |-> d] :
        f \in {FW_UPDATE_FLAG_NONE, FW_UPDATE_FLAG_FIRST_BLOCK, FW_UPDATE_FLAG_LAST_BLOCK},
        len \in {DEFAULT_DATA_LENGTH, 40}, seq \in {0, 1, 4660},
        a \in {0, 305419896},
        d \in {Zeros(DEFAULT_DATA_LENGTH), get_bytes_for_chunk(DEFAULT_DATA_LENGTH, 0)}}

ContentCommandBuffers ==
    {[k \in 1..60 |->
         IF k = 1 THEN f
         ELSE IF k = 2 THEN len
         ELSE IF pat THEN PatternByte(k) ELSE 0] :
        f \in {0, 128, 255}, len \in {0, 52}, pat \in BOOLEAN}

OfferResponseValues ==
    {[token |-> tok, reject_reason |-> rr, status |-> st,
      reserved0 |-> [k \in 1..3 |-> r], reserved1 |-> [k \in 1..4 |-> r],
      reserved2 |-> [k \in 1..3 |-> r], reserved3 |-> [k \in 1..3 |-> r]] :
        tok \in TokenSamples, rr \in RejectReasonSamples, st \in OfferStatusValues,
        r \in ReservedFill}

OfferResponseBuffers ==
    {[k \in 1..16 |->
         IF k = 4 THEN tok
         ELSE IF k = 9 THEN rr
         ELSE IF k = 13 THEN st
         ELSE fill] :
        tok \in TokenBytes, rr \in RejectReasonBytes, st \in OfferStatusBytes,
        fill \in ReservedFill}
    \cup
    {[k \in 1..16 |-> IF k = 9 THEN rr ELSE IF k = 13 THEN st ELSE 0] :
        rr \in Bytes, st \in {0, 1, 3}}
    \cup
    {[k \in 1..16 |-> IF k = 9 THEN 2 ELSE IF k = 13 THEN st ELSE 0] : st \in Bytes}

ContentResponseValues ==
    {[sequence |-> seq, reserved0 |-> r, status |-> StatusNames[st],
      reserved1 |-> [k \in 1..11 |-> r]] :
        seq \in {0, 1, 4660, 65535}, st \in 1..12, r \in ReservedFill}

\* component entry idx of a response whose entries all differ
PatternComponent(idx) ==
    [fw_version |-> [variant |-> idx, minor |-> 256 * idx + 1, major |-> 16 + idx],
     packed_byte |-> 16 * idx + 1,
     component_id |-> idx,
     vendor_specific1 |-> 4660 + idx]

ComponentCounts == {0, 1, 3, 7, 8, 255}

GetFwVersionValues ==
    {[header |-> [component_count |-> c, reserved |-> r, byte3 |-> b3],
      component_info |->
          [idx \in 1..MAX_CMPT_COUNT |->
              IF filled = "all" \/ (filled = "count" /\ idx <= c)
                  THEN PatternComponent(idx)
                  ELSE FwVerComponentInfo_default]] :
        c \in ComponentCounts, r \in {0, 54},
        b3 \in {"NoSpecialFlags", "ExtensionFlagSet"},
        filled \in {"none", "count", "all"}}

GetFwVersionBuffers ==
    {[k \in 1..60 |->
         IF k = 1 THEN c
         ELSE IF k = 2 THEN r
         ELSE IF k = 3 THEN r \div 2
         ELSE IF k = 4 THEN b3
         ELSE IF pat THEN PatternByte(k) ELSE 0] :
        c \in ComponentCounts, r \in {0, 54}, b3 \in {0, 32, 33, 34}, pat \in BOOLEAN}

FrameTypes ==
    {"FwUpdateOffer", "FwUpdateOfferInformation", "FwUpdateOfferExtended",
     "FwUpdateContentCommand", "FwUpdateOfferResponse", "FwUpdateContentResponse",
     "GetFwVersionResponse"}

EnumTypes == {"HostToken", "OfferRejectReason", "OfferStatus"}

\* the inputs of a type's decoder
BuffersOf(t) ==
    CASE t = "FwUpdateOffer" -> OfferBuffers
      [] t = "FwUpdateOfferInformation" -> OfferInformationBuffers
      [] t = "FwUpdateOfferExtended" -> OfferExtendedBuffers
      [] t = "FwUpdateContentCommand" -> ContentCommandBuffers
      [] t = "FwUpdateOfferResponse" -> OfferResponseBuffers
      [] t = "FwUpdateContentResponse" -> RespBuffers
      [] t = "GetFwVersionResponse" -> GetFwVersionBuffers
      [] OTHER -> Bytes

\* the inputs of a type's encoder
ValuesOf(t) ==
    CASE t = "FwUpdateOffer" -> OfferValues
      [] t = "FwUpdateOfferInformation" -> OfferInformationValues
      [] t = "FwUpdateOfferExtended" -> OfferExtendedValues
      [] t = "FwUpdateContentCommand" -> ContentCommandValues
      [] t = "FwUpdateOfferResponse" -> OfferResponseValues
      [] t = "FwUpdateContentResponse" -> ContentResponseValues
      [] t = "GetFwVersionResponse" -> GetFwVersionValues
      [] t = "HostToken" -> HostTokenValues
      [] t = "OfferRejectReason" -> OfferRejectReasonValues
      [] t = "OfferStatus" -> OfferStatusValues

----------------------------------------------------------------------------
(* Applying the conversions                                                *)

\* write_data_chunks has not been called
EngineIdle ==
    /\ total_bytes = 0
    /\ base_offset = 0
    /\ cmpt_id = 1
    /\ pc = "idle"
    /\ i = 0
    /\ chunk = Zeros(DEFAULT_DATA_LENGTH)
    /\ resp = NewContentResponse(0, "ErrorInvalid")
    /\ result = Pending
    /\ offer_cmds = << >>
    /\ sent = << >>
    /\ nsent = 0
    /\ reads = << >>
    /\ acked = 0
    /\ echoed = TRUE
    /\ rx = NoRx
    /\ image_err = FALSE

\* one conversion is called; on_input is what it returns for the input and
\* on_first what it returns for the value the first conversion returned: it
\* is applied to the input if it is the first conversion, otherwise to what
\* the first conversion returned
Conversion(kind, on_input, on_first) ==
    /\ \/ /\ cstage = 0
          /\ cfirst = kind
          /\ c1' = on_input
          /\ UNCHANGED c2
       \/ /\ cstage = 1
          /\ cfirst # kind
          /\ c1.ok
          /\ c2' = on_first
          /\ UNCHANGED c1
    /\ cstage' = cstage + 1
    /\ UNCHANGED <<ctype, cfirst, c0>>
    /\ UNCHANGED <<engine_vars, client_vars>>

HostToken_TryFrom ==
    /\ ctype = "HostToken"
    /\ Conversion("decode",
                  HostToken_try_from(c0),
                  HostToken_try_from(c1.val))

HostToken_Into ==
    /\ ctype = "HostToken"
    /\ Conversion("encode",
                  OkR(HostToken_into_u8(c0)),
                  OkR(HostToken_into_u8(c1.val)))

OfferRejectReason_TryFrom ==
    /\ ctype = "OfferRejectReason"
    /\ Conversion("decode",
                  OfferRejectReason_try_from(c0),
                  OfferRejectReason_try_from(c1.val))

OfferRejectReason_Into ==
    /\ ctype = "OfferRejectReason"
    /\ Conversion("encode",
                  OkR(OfferRejectReason_into_u8(c0)),
                  OkR(OfferRejectReason_into_u8(c1.val)))

OfferStatus_TryFrom ==
    /\ ctype = "OfferStatus"
    /\ Conversion("decode",
                  OfferStatus_try_from(c0),
                  OfferStatus_try_from(c1.val))

OfferStatus_Into ==
    /\ ctype = "OfferStatus"
    /\ Conversion("encode",
                  OkR(OfferStatus_into_u8(c0)),
                  OkR(OfferStatus_into_u8(c1.val)))

FwUpdateOffer_TryFrom ==
    /\ ctype = "FwUpdateOffer"
    /\ Conversion("decode",
                  FwUpdateOffer_try_from(c0),
                  FwUpdateOffer_try_from(c1.val))

FwUpdateOffer_Into ==
    /\ ctype = "FwUpdateOffer"
    /\ Conversion("encode",
                  OkR(FwUpdateOffer_into_bytes(c0)),
                  OkR(FwUpdateOffer_into_bytes(c1.val)))

FwUpdateOfferInformation_TryFrom ==
    /\ ctype = "FwUpdateOfferInformation"
    /\ Conversion("decode",
                  FwUpdateOfferInformation_try_from(c0),
                  FwUpdateOfferInformation_try_from(c1.val))

FwUpdateOfferInformation_Into ==
    /\ ctype = "FwUpdateOfferInformation"
    /\ Conversion("encode",
                  OkR(FwUpdateOfferInformation_into_bytes(c0)),
                  OkR(FwUpdateOfferInformation_into_bytes(c1.val)))

FwUpdateOfferExtended_TryFrom ==
    /\ ctype = "FwUpdateOfferExtended"
    /\ Conversion("decode",
                  FwUpdateOfferExtended_try_from(c0),
                  FwUpdateOfferExtended_try_from(c1.val))

FwUpdateOfferExtended_Into ==
    /\ ctype = "FwUpdateOfferExtended"
    /\ Conversion("encode",
                  OkR(FwUpdateOfferExtended_into_bytes(c0)),
                  OkR(FwUpdateOfferExtended_into_bytes(c1.val)))

FwUpdateContentCommand_TryFrom ==
    /\ ctype = "FwUpdateContentCommand"
    /\ Conversion("decode",
                  FwUpdateContentCommand_try_from(c0),
                  FwUpdateContentCommand_try_from(c1.val))

FwUpdateContentCommand_Into ==
    /\ ctype = "FwUpdateContentCommand"
    /\ Conversion("encode",
                  OkR(SerializeContentCommand(c0)),
                  OkR(SerializeContentCommand(c1.val)))

FwUpdateOfferResponse_TryFrom ==
    /\ ctype = "FwUpdateOfferResponse"
    /\ Conversion("decode",
                  FwUpdateOfferResponse_try_from(c0),
                  FwUpdateOfferResponse_try_from(c1.val))

FwUpdateOfferResponse_Into ==
    /\ ctype = "FwUpdateOfferResponse"
    /\ Conversion("encode",
                  OkR(FwUpdateOfferResponse_into_bytes(c0)),
                  OkR(FwUpdateOfferResponse_into_bytes(c1.val)))

FwUpdateContentResponse_TryFrom ==
    /\ ctype = "FwUpdateContentResponse"
    /\ Conversion("decode",
                  FwUpdateContentResponse_try_from(c0),
                  FwUpdateContentResponse_try_from(c1.val))

FwUpdateContentResponse_Into ==
    /\ ctype = "FwUpdateContentResponse"
    /\ Conversion("encode",
                  OkR(FwUpdateContentResponse_into_bytes(c0)),
                  OkR(FwUpdateContentResponse_into_bytes(c1.val)))

GetFwVersionResponse_TryFrom ==
    /\ ctype = "GetFwVersionResponse"
    /\ Conversion("decode",
                  GetFwVersionResponse_try_from(c0),
                  GetFwVersionResponse_try_from(c1.val))

GetFwVersionResponse_TryInto ==
    /\ ctype = "GetFwVersionResponse"
    /\ Conversion("encode",
                  GetFwVersionResponse_try_into_bytes(c0),
                  GetFwVersionResponse_try_into_bytes(c1.val))

InitCodec ==
    /\ EngineIdle
    /\ ClientIdle
    /\ ctype \in FrameTypes \cup EnumTypes
    /\ cfirst \in {"decode", "encode"}
    /\ cstage = 0
    /\ c0 \in (IF cfirst = "decode" THEN BuffersOf(ctype) ELSE ValuesOf(ctype))
    /\ c1 = NoValue
    /\ c2 = NoValue

NextCodec ==
    \/ HostToken_TryFrom
    \/ HostToken_Into
    \/ OfferRejectReason_TryFrom
    \/ OfferRejectReason_Into
    \/ OfferStatus_TryFrom
    \/ OfferStatus_Into
    \/ FwUpdateOffer_TryFrom
    \/ FwUpdateOffer_Into
    \/ FwUpdateOfferInformation_TryFrom
    \/ FwUpdateOfferInformation_Into
    \/ FwUpdateOfferExtended_TryFrom
    \/ FwUpdateOfferExtended_Into
    \/ FwUpdateContentCommand_TryFrom
    \/ FwUpdateContentCommand_Into
    \/ FwUpdateOfferResponse_TryFrom
    \/ FwUpdateOfferResponse_Into
    \/ FwUpdateContentResponse_TryFrom
    \/ FwUpdateContentResponse_Into
    \/ GetFwVersionResponse_TryFrom
    \/ GetFwVersionResponse_TryInto

SpecCodec == InitCodec /\ [][NextCodec]_vars

----------------------------------------------------------------------------
(* Default implementations of the client and component traits              *)

\* Option<T>
None == [some |-> FALSE, val |-> 0]

Some(v) == [some |-> TRUE, val |-> v]

\* RT::default() and E::default()
RT_default == 0

E_default == "default"

\* Ok(())
OkUnit == OkR(0)

\* default_process_command: traces when args are present, then Ok(())
default_process_command(args, cmd) == OkUnit

\* default_prepare_components: traces when args are present, then Ok(());
\* the component handed in is not used, so no storage_prepare() is invoked
default_prepare_components(args, primary_component) ==
    [ret |-> OkUnit, storage_prepare |-> << >>]

\* variant: args are ignored
on_update_complete_AlwaysOk(args) == OkR(RT_default)

\* CfuComponentFinalize::on_update_complete, default body
on_update_complete(args) ==
    IF args.some THEN ErrR(E_default) ELSE OkR(RT_default)

\* inputs of the calls
ArgsOptions == {None, Some(1), Some(2)}

CommandSamples == {"offer", "content"}

SubcomponentIds == {2, 3}

LogCall(op, args, ret) ==
    calls' = Append(calls, [op |-> op, args |-> args, ret |-> ret])

ProcessCommand ==
    /\ Len(calls) < MaxCalls
    /\ \E args \in ArgsOptions, cmd \in CommandSamples :
          LogCall("process_command", args, default_process_command(args, cmd))
    /\ UNCHANGED <<primary, storage_prepare_calls>>
    /\ UNCHANGED <<engine_vars, codec_vars>>

PrepareComponents ==
    /\ Len(calls) < MaxCalls
    /\ \E args \in ArgsOptions :
          LET r == default_prepare_components(args, primary) IN
          /\ LogCall("prepare_components", args, r.ret)
          /\ storage_prepare_calls' = storage_prepare_calls \o r.storage_prepare
    /\ UNCHANGED primary
    /\ UNCHANGED <<engine_vars, codec_vars>>

OnUpdateComplete ==
    /\ Len(calls) < MaxCalls
    /\ \E args \in ArgsOptions :
          LogCall("on_update_complete", args, on_update_complete(args))
    /\ UNCHANGED <<primary, storage_prepare_calls>>
    /\ UNCHANGED <<engine_vars, codec_vars>>

InitClient ==
    /\ EngineIdle
    /\ CodecIdle
    /\ primary \in [id : {1}, subcomponents : SUBSET SubcomponentIds]
    /\ calls = << >>
    /\ storage_prepare_calls = << >>

NextClient ==
    \/ ProcessCommand
    \/ PrepareComponents
    \/ OnUpdateComplete

SpecClient == InitClient /\ [][NextClient]_vars

----------------------------------------------------------------------------
(* Vocabulary of the properties                                            *)

\* fields of a content command as they appear on the wire
CmdFlags(c) == c.bytes[1]

CmdDataLength(c) == c.bytes[2]

CmdSequenceNum(c) == c.bytes[3] + 256 * c.bytes[4]

CmdData(c) == SubSeq(c.bytes, 9, 60)

HasFirstBlock(c) == (CmdFlags(c) \div 128) % 2 = 1

HasLastBlock(c) == (CmdFlags(c) \div 64) % 2 = 1

\* fields of the latest response buffer as they appear on the wire
RxStatusByte == rx.buf[5]

RxSequence == rx.buf[1] + 256 * rx.buf[2]

RxReceived == rx.where # "none" /\ rx.err = "none"

RxDecodeFails == RxReceived /\ RxStatusByte \notin 0..11

RxNonSuccess == RxReceived /\ RxStatusByte \in 1..11

RxFailed == rx.err # "none" \/ RxDecodeFails \/ RxNonSuccess

RxBlockNonSuccess == rx.where = "block" /\ RxNonSuccess

\* the call has returned, every image read succeeded and every exchange was
\* answered with a buffer that decodes with status Success
CleanRun == pc = "done" /\ ~image_err /\ RxReceived /\ RxStatusByte = 0

\* the payload of the chunk that starts at chunk index idx and holds len image bytes
ExpectedPayload(idx, len) ==
    [k \in 1..DEFAULT_DATA_LENGTH |->
        IF k <= len THEN ImageByte(base_offset + idx * DEFAULT_DATA_LENGTH + k - 1) ELSE 0]

----------------------------------------------------------------------------
(* Properties                                                              *)

\* C1: the content command for chunk i+1 is handed to the transport only
\* after the response to chunk i was received, decoded and found Success, so
\* the commands sent never outnumber the Success responses by more than one;
\* and once a transport error, a decode error or a non-Success response has
\* been seen no further content command is sent.
C1_Ordering ==
    /\ [](nsent <= acked + 1)
    /\ [][RxFailed => (sent' = sent /\ nsent' = nsent)]_vars

C1_Witness ==
    /\ pc = "done"
    /\ num_chunks = 3
    /\ nsent = 2
    /\ acked = 1
    /\ RxBlockNonSuccess

\* C2: with a peer that answers every block with Success, exactly one content
\* command carries FirstBlock (the first one) and exactly one carries
\* LastBlock (the last one); a single command carries both.
C2_FlagCorrectness ==
    (CleanRun /\ total_bytes >= 1) =>
        /\ Len(sent) >= 1
        /\ {j \in 1..Len(sent) : HasFirstBlock(sent[j])} = {1}
        /\ {j \in 1..Len(sent) : HasLastBlock(sent[j])} = {Len(sent)}

\* C3: for T > 52 with T mod 52 > 0 and a peer that answers every block with
\* Success, the N full chunks are followed by one more command with
\* sequence_num N, flag LastBlock and the remaining T mod 52 image bytes
\* zero-padded to 52 bytes.
C3_RemainderChunk ==
    (CleanRun /\ total_bytes > DEFAULT_DATA_LENGTH /\ remainder > 0) =>
        /\ Len(sent) = num_chunks + 1
        /\ CmdSequenceNum(sent[Len(sent)]) = num_chunks
        /\ CmdFlags(sent[Len(sent)]) = FW_UPDATE_FLAG_LAST_BLOCK
        /\ CmdData(sent[Len(sent)]) = ExpectedPayload(num_chunks, remainder)

\* C4: for 1 <= T <= 52 exactly one content command is sent, with flags 0xC0,
\* sequence_num 0, data_length T and the T image bytes followed by zeros, and
\* the call succeeds when the peer answers {sequence = 0, status = Success}.
C4_SingleChunk ==
    (CleanRun /\ total_bytes \in 1..DEFAULT_DATA_LENGTH) =>
        /\ Len(sent) = 1
        /\ CmdFlags(sent[1]) = FW_UPDATE_FLAG_FIRST_BLOCK + FW_UPDATE_FLAG_LAST_BLOCK
        /\ CmdSequenceNum(sent[1]) = 0
        /\ CmdDataLength(sent[1]) = total_bytes
        /\ CmdData(sent[1]) = ExpectedPayload(0, total_bytes)
        /\ (rx.where = "block" /\ RxSequence = 0) => result.kind = "Ok"

\* C5 as stated: when every block is answered with Success and the last
\* response's sequence differs from N = floor(T/52), the call returns
\* InvalidBlockTransition.
C5_Original ==
    (CleanRun /\ rx.where = "block" /\ RxSequence # num_chunks) =>
        result = InvalidBlockTransition

\* C5: when every block is answered with Success and the last response's
\* sequence differs from N = floor(T/52) truncated to 16 bits, the call
\* returns InvalidBlockTransition.
C5_SequenceCheck ==
    (CleanRun /\ rx.where = "block" /\ RxSequence # num_chunks % U16) =>
        result = InvalidBlockTransition

C5_Witness ==
    /\ CleanRun
    /\ rx.where = "block"
    /\ num_chunks = U16 + 1
    /\ RxSequence = 0
    /\ result = InvalidBlockTransition

\* C6: for an image of exactly k*52 bytes (k >= 2) and a peer that answers
\* every command with Success and the command's own sequence_num, exactly k
\* commands with sequence numbers 0..k-1 are sent and the call succeeds.
C6_ExactMultiple ==
    (CleanRun /\ remainder = 0 /\ num_chunks >= 2 /\ echoed) =>
        /\ Len(sent) = num_chunks
        /\ \A j \in 1..Len(sent) : CmdSequenceNum(sent[j]) = j - 1
        /\ result.kind = "Ok"

\* C7: when the response to a content block decodes with a status other than
\* Success, the call has stopped and returned UpdateError(cmpt_id).
C7_UpdateError ==
    RxBlockNonSuccess => (pc = "done" /\ result = UpdateError(cmpt_id))

C7_Witness ==
    /\ RxBlockNonSuccess
    /\ RxStatusByte = 11
    /\ cmpt_id = 2
    /\ nsent = 1

\* C8 as stated: a non-Success status s in a block response halts the
\* component with CfuContentUpdateResponseError(s).
C8_Original ==
    RxBlockNonSuccess =>
        /\ pc = "done"
        /\ result = CfuContentUpdateResponseError(StatusNames[RxStatusByte + 1])

\* C8: a non-Success status s in a block response halts the component with
\* UpdateError(cmpt_id), an error that names the component and not the
\* status s, and the next block is not sent.
C8_HaltsWithoutStatus ==
    /\ [](RxBlockNonSuccess =>
            (result.kind = "UpdateError" /\ DOMAIN result = {"kind", "cmpt"}
                /\ result.cmpt = cmpt_id))
    /\ [][RxBlockNonSuccess => (sent' = sent /\ nsent' = nsent)]_vars

C8_Witness ==
    /\ RxBlockNonSuccess
    /\ RxStatusByte = 2
    /\ num_chunks = 3
    /\ nsent = 2
    /\ CmdSequenceNum(sent[2]) = 1
    /\ pc = "done"

\* C9 as stated: a transport failure of kind e, in the initial exchange or in
\* a content block, makes the call return WriterError(e).
C9_Original ==
    rx.err # "none" => result = WriterError(rx.err)

\* C9: a transport failure of kind e makes the call return WriterError(e) when
\* it hits the initial exchange and WriterError(StorageError), whatever e is,
\* when it hits a content block.
C9_TransportErrorMapping ==
    rx.err # "none" =>
        /\ pc = "done"
        /\ result = WriterError(IF rx.where = "offer" THEN rx.err ELSE "StorageError")

C9_Witness ==
    /\ pc = "done"
    /\ rx.where = "block"
    /\ rx.err = "Other"
    /\ result = WriterError("StorageError")

\* C10: when a response buffer of the initial exchange or of a content block
\* fails to decode, the call returns WriterError(ByteConversionError) and
\* hands no further command to the transport.
C10_DecodeError ==
    /\ [](RxDecodeFails =>
            (pc = "done" /\ result = WriterError("ByteConversionError")))
    /\ [][RxDecodeFails =>
            (sent' = sent /\ nsent' = nsent /\ offer_cmds' = offer_cmds)]_vars

C10_Witness ==
    /\ RxDecodeFails
    /\ rx.where = "block"
    /\ nsent = 2
    /\ pc = "done"

\* C11: the image read of chunk index i is issued at offset
\* base_offset + i * DEFAULT_DATA_LENGTH, and the read of chunk i is issued
\* before the content command of chunk i is handed to the transport.
C11_OffsetCorrectness ==
    /\ [](\A j \in 1..Len(reads) :
            reads[j].offset = base_offset + (j - 1) * DEFAULT_DATA_LENGTH)
    /\ [](Len(sent) <= Len(reads))
    /\ [][sent' # sent => (reads' = reads /\ Len(reads) = Len(sent) + 1)]_vars

C11_Witness ==
    /\ base_offset = 100
    /\ Len(reads) = 3
    /\ reads[3].offset = 204
    /\ Len(sent) = 3
    /\ pc = "await_block"

\* C19: OfferRejectReason::try_from(b), for every byte b, returns OldFw,
\* InvalidComponent, SwapPending for 0, 1, 2, fails for every b in 0x03..0xDF
\* and returns VendorSpecific(b) for every b in 0xE0..0xFF; converting a
\* decoded value back to a byte returns b.
C19_RejectReasonDecode ==
    (ctype = "OfferRejectReason" /\ cfirst = "decode" /\ cstage >= 1) =>
        /\ c0 = 0 => c1 = OkR(Unit("OldFw"))
        /\ c0 = 1 => c1 = OkR(Unit("InvalidComponent"))
        /\ c0 = 2 => c1 = OkR(Unit("SwapPending"))
        /\ c0 \in 3..223 => ~c1.ok
        /\ c0 \in 224..255 => c1 = OkR(VendorSpecific(c0))
        /\ cstage = 2 => c2 = OkR(c0)

C19_Witness ==
    /\ ctype = "OfferRejectReason"
    /\ cfirst = "decode"
    /\ cstage = 2
    /\ c0 = 224
    /\ c1.val = VendorSpecific(224)
    /\ c2.val = 224

\* C20 as stated: HostToken::try_from(b) succeeds for every byte b with
\* 0xA0 -> Driver, 0xB0 -> Tool, any other b -> VendorSpecific(b);
\* u8::from(try_from(b)) = b for every byte b, and try_from(u8::from(t)) = t
\* for every HostToken value t.
C20_Original ==
    ctype = "HostToken" =>
        /\ (cfirst = "decode" /\ cstage >= 1) =>
              c1 = OkR(IF c0 = 160 THEN Unit("Driver")
                       ELSE IF c0 = 176 THEN Unit("Tool")
                       ELSE VendorSpecific(c0))
        /\ cstage = 2 => c2 = OkR(c0)

\* C20: HostToken::try_from(b) succeeds for every byte b with 0xA0 -> Driver,
\* 0xB0 -> Tool, any other b -> VendorSpecific(b); u8::from(try_from(b)) = b
\* for every byte b; try_from(u8::from(t)) = t for every HostToken value t
\* other than VendorSpecific(0xA0) and VendorSpecific(0xB0), which encode to
\* the bytes of Driver and Tool and decode to Driver and Tool.
C20_HostTokenLossless ==
    ctype = "HostToken" =>
        /\ (cfirst = "decode" /\ cstage >= 1) =>
              c1 = OkR(IF c0 = 160 THEN Unit("Driver")
                       ELSE IF c0 = 176 THEN Unit("Tool")
                       ELSE VendorSpecific(c0))
        /\ (cfirst = "decode" /\ cstage = 2) => c2 = OkR(c0)
        /\ (cfirst = "encode" /\ cstage = 2) =>
              c2 = OkR(IF c0 = VendorSpecific(160) THEN Unit("Driver")
                       ELSE IF c0 = VendorSpecific(176) THEN Unit("Tool")
                       ELSE c0)

C20_Witness ==
    /\ ctype = "HostToken"
    /\ cfirst = "encode"
    /\ cstage = 2
    /\ c0 = VendorSpecific(176)
    /\ c1.val = 176
    /\ c2.val = Unit("Tool")

\* C18: decoding a 60-byte GetFwVersionResponse buffer fails with
\* ValueOutOfRange whenever byte 0 (component_count) exceeds 7; when byte 0 is
\* c <= 7 and byte 3 is 0x20 or 0x21 it succeeds, entries 0..c-1 hold the
\* fields found at their eight bytes of the buffer, and entries c..6 are
\* all-zero whatever the buffer holds at their positions.
C18_GetFwVersionDecode ==
    (ctype = "GetFwVersionResponse" /\ cfirst = "decode" /\ cstage >= 1) =>
        /\ c0[1] > 7 => c1 = ErrR("ValueOutOfRange")
        /\ (c0[1] <= 7 /\ c0[4] \in {32, 33}) =>
              /\ c1.ok
              /\ c1.val.header.component_count = c0[1]
              /\ \A e \in 0..6 :
                    LET entry == c1.val.component_info[e + 1]
                        at == 4 + 8 * e
                    IN
                    IF e < c0[1]
                        THEN /\ entry.packed_byte = c0[at + 1]
                             /\ entry.component_id = c0[at + 2]
                             /\ entry.vendor_specific1 = c0[at + 3] + 256 * c0[at + 4]
                             /\ entry.fw_version.major = c0[at + 5]
                             /\ entry.fw_version.minor = c0[at + 6] + 256 * c0[at + 7]
                             /\ entry.fw_version.variant = c0[at + 8]
                        ELSE /\ entry.packed_byte = 0
                             /\ entry.component_id = 0
                             /\ entry.vendor_specific1 = 0
                             /\ entry.fw_version.major = 0
                             /\ entry.fw_version.minor = 0
                             /\ entry.fw_version.variant = 0

C18_Witness ==
    /\ ctype = "GetFwVersionResponse"
    /\ cfirst = "decode"
    /\ cstage >= 1
    /\ c0[1] = 3
    /\ c0[4] = 33
    /\ c0[29] # 0
    /\ c1.ok
    /\ c1.val.component_info[3].component_id = c0[22]
    /\ c1.val.component_info[3].component_id # 0
    /\ c1.val.component_info[4].packed_byte = 0

\* number of bytes a frame type is serialized to
FrameWidth(t) ==
    CASE t \in {"FwUpdateOfferInformation", "FwUpdateOfferExtended",
                "FwUpdateOfferResponse", "FwUpdateContentResponse"} -> 16
      [] t = "FwUpdateOffer" -> 32
      [] OTHER -> 60

\* C17 as stated: encoding never fails; for every frame type and every value,
\* a GetFwVersionResponse with any component_count included, the encoder
\* returns the full fixed-size byte array.
C17_Original ==
    (ctype \in FrameTypes /\ cfirst = "encode" /\ cstage >= 1) =>
        (c1.ok /\ Len(c1.val) = FrameWidth(ctype))

\* C17: for every frame type and every value the encoder returns the full
\* fixed-size byte array, except that encoding a GetFwVersionResponse whose
\* component_count exceeds 7 returns the error ByteConversionError.
C17_EncodeFailure ==
    (ctype \in FrameTypes /\ cfirst = "encode" /\ cstage >= 1) =>
        IF ctype = "GetFwVersionResponse" /\ c0.header.component_count > 7
            THEN c1 = ErrR("ByteConversionError")
            ELSE c1.ok /\ Len(c1.val) = FrameWidth(ctype)

C17_Witness ==
    /\ ctype = "GetFwVersionResponse"
    /\ cfirst = "encode"
    /\ cstage = 1
    /\ c0.header.component_count = 8
    /\ c1 = ErrR("ByteConversionError")

\* the byte positions the frame layouts call reserved (position 1 is byte 0)
ReservedPositions(t) ==
    CASE t = "GetFwVersionResponse" -> {2, 3}
      [] t = "FwUpdateOffer" -> 17..32
      [] t \in {"FwUpdateOfferInformation", "FwUpdateOfferExtended"} -> {2} \cup (5..16)
      [] t = "FwUpdateOfferResponse" -> (1..3) \cup (5..8) \cup (10..12) \cup (14..16)
      [] t = "FwUpdateContentResponse" -> {3, 4} \cup (6..16)
      [] OTHER -> {}

\* C16 as stated: whatever the reserved fields of a value hold, the encoder
\* writes zero at every reserved byte position and in bits 5-0 of byte 1 of
\* an FwUpdateOffer.
C16_Original ==
    (ctype \in FrameTypes /\ cfirst = "encode" /\ cstage >= 1 /\ c1.ok) =>
        /\ \A k \in ReservedPositions(ctype) : c1.val[k] = 0
        /\ ctype = "FwUpdateOffer" => c1.val[2] % 64 = 0

\* C16: whatever the reserved fields of a value hold, the encoder writes zero
\* at bytes 16-31 of FwUpdateOffer, byte 1 and bytes 4-15 of the
\* offer-information and offer-extended frames, bytes 0-2, 4-7, 9-11, 13-15
\* of the offer response and bytes 2-3 and 5-15 of the content response;
\* bytes 1-2 of GetFwVersionResponse carry the header's reserved field
\* (little endian) and byte 1 of FwUpdateOffer carries packed_byte as it is
\* stored, reserved bits included.
C16_ReservedZero ==
    (ctype \in FrameTypes /\ cfirst = "encode" /\ cstage >= 1 /\ c1.ok) =>
        /\ ctype # "GetFwVersionResponse" =>
              \A k \in ReservedPositions(ctype) : c1.val[k] = 0
        /\ ctype = "GetFwVersionResponse" =>
              c1.val[2] + 256 * c1.val[3] = c0.header.reserved
        /\ ctype = "FwUpdateOffer" =>
              c1.val[2] = c0.component_info.byte1.packed_byte

C16_Witness ==
    /\ ctype = "FwUpdateOfferResponse"
    /\ cfirst = "encode"
    /\ cstage >= 1
    /\ c0.reserved0 = <<170, 170, 170>>
    /\ c0.reserved3 = <<170, 170, 170>>
    /\ c1.ok
    /\ \A k \in ReservedPositions(ctype) : c1.val[k] = 0

\* values that a decoder can return
CanonicalToken(tok) == tok \notin {VendorSpecific(160), VendorSpecific(176)}

CanonicalRejectReason(rr) == rr.tag = "VendorSpecific" => rr.val >= 224

Canonical(t, v) ==
    CASE t = "FwUpdateOffer" -> CanonicalToken(v.component_info.token)
      [] t = "FwUpdateOfferInformation" ->
            /\ v.component_info.code.tag # "VendorSpecific"
            /\ v.component_info.component_id = "Info"
            /\ CanonicalToken(v.component_info.token)
            /\ v.component_info.reserved = 0
            /\ v.reserved0 = 0 /\ v.reserved1 = 0 /\ v.reserved2 = 0
      [] t = "FwUpdateOfferExtended" ->
            /\ v.component_info.code # VendorSpecific(1)
            /\ v.component_info.component_id = "Command"
            /\ CanonicalToken(v.component_info.token)
            /\ v.component_info.reserved = 0
            /\ v.reserved0 = 0 /\ v.reserved1 = 0 /\ v.reserved2 = 0
      [] t = "FwUpdateContentCommand" -> TRUE
      [] t = "FwUpdateOfferResponse" ->
            /\ CanonicalToken(v.token)
            /\ CanonicalRejectReason(v.reject_reason)
            /\ v.reserved0 = Zeros(3) /\ v.reserved1 = Zeros(4)
            /\ v.reserved2 = Zeros(3) /\ v.reserved3 = Zeros(3)
      [] t = "FwUpdateContentResponse" ->
            v.reserved0 = 0 /\ v.reserved1 = Zeros(11)
      [] t = "GetFwVersionResponse" ->
            /\ v.header.component_count <= 7
            /\ \A idx \in 1..7 :
                  idx > v.header.component_count =>
                      v.component_info[idx] = FwVerComponentInfo_default

\* C14 as stated: for each frame type and every value v of that type,
\* decoding the bytes produced by encoding v succeeds and yields v.
C14_Original ==
    (ctype \in FrameTypes /\ cfirst = "encode" /\ cstage >= 1) =>
        /\ c1.ok
        /\ cstage = 2 => c2 = OkR(c0)

\* C14: for each frame type and every value v of that type in canonical form,
\* encoding v succeeds and decoding the bytes yields v; every value a decoder
\* returns is in canonical form, and no value outside it survives the round
\* trip.  Canonical form: no HostToken is VendorSpecific(0xA0) or
\* VendorSpecific(0xB0); a VendorSpecific reject reason is >= 0xE0; an
\* offer-information frame has a named code and component_id Info; an
\* offer-extended frame has component_id Command and a code other than
\* VendorSpecific(0x01); the reserved fields of the 16-byte frames are zero;
\* a GetFwVersionResponse has component_count <= 7 and default entries from
\* index component_count on.
C14_RoundTrip ==
    ctype \in FrameTypes =>
        /\ (cfirst = "encode" /\ cstage >= 1 /\ Canonical(ctype, c0)) =>
              /\ c1.ok
              /\ cstage = 2 => c2 = OkR(c0)
        /\ (cfirst = "encode" /\ cstage = 2 /\ ~Canonical(ctype, c0)) =>
              c2 # OkR(c0)
        /\ (cfirst = "decode" /\ cstage >= 1 /\ c1.ok) => Canonical(ctype, c1.val)

C14_Witness ==
    /\ ctype = "GetFwVersionResponse"
    /\ cfirst = "encode"
    /\ cstage = 2
    /\ c0.header.component_count = 3
    /\ c0.header.reserved = 54
    /\ c0.component_info[3].component_id = 3
    /\ c2 = OkR(c0)

\* the enum-bearing bytes of a buffer hold values their decoders accept
ValidEnumBytes(t, b) ==
    CASE t = "FwUpdateOfferInformation" -> b[1] \in {0, 1, 2} /\ b[3] = 255
      [] t = "FwUpdateOfferExtended" -> b[3] = 254
      [] t = "FwUpdateOfferResponse" ->
            /\ b[9] \in {0, 1, 2} \cup (224..255)
            /\ b[13] \in {0, 1, 2, 3, 4, 255}
      [] t = "FwUpdateContentResponse" -> b[5] \in 0..11
      [] t = "GetFwVersionResponse" -> b[4] \in {32, 33}
      [] OTHER -> TRUE

\* C15 as stated: for each frame type and every buffer b whose enum-bearing
\* bytes are valid, decode(b) succeeds and encode(decode(b)) equals b at
\* every non-reserved byte position and is zero at every reserved one.
C15_Original ==
    (ctype \in FrameTypes /\ cfirst = "decode" /\ cstage >= 1
        /\ ValidEnumBytes(ctype, c0)) =>
        /\ c1.ok
        /\ cstage = 2 =>
              /\ c2.ok
              /\ \A k \in 1..FrameWidth(ctype) :
                    c2.val[k] = IF k \in ReservedPositions(ctype) THEN 0 ELSE c0[k]

\* C15: decode(b) succeeds exactly for the buffers b whose enum-bearing bytes
\* are accepted and, for GetFwVersionResponse, whose byte 0 is at most 7; for
\* these encode(decode(b)) equals b at every non-reserved byte position and
\* is zero at every reserved one, except that for GetFwVersionResponse bytes
\* 1-2 come back as they are in b and the bytes of the entries from index
\* component_count on come back as zero.
C15_EncodeAfterDecode ==
    (ctype \in FrameTypes /\ cfirst = "decode" /\ cstage >= 1) =>
        /\ c1.ok <=> (/\ ValidEnumBytes(ctype, c0)
                      /\ ctype = "GetFwVersionResponse" => c0[1] <= 7)
        /\ cstage = 2 =>
              /\ c2.ok
              /\ \A k \in 1..FrameWidth(ctype) :
                    c2.val[k] =
                        IF ctype = "GetFwVersionResponse"
                            THEN (IF k > 4 + 8 * c0[1] THEN 0 ELSE c0[k])
                            ELSE (IF k \in ReservedPositions(ctype) THEN 0 ELSE c0[k])

C15_Witness ==
    /\ ctype = "GetFwVersionResponse"
    /\ cfirst = "decode"
    /\ cstage = 2
    /\ c0[1] = 3
    /\ c0[2] = 54
    /\ c0[60] # 0
    /\ c2.ok
    /\ c2.val[2] = 54
    /\ c2.val[28] = c0[28]
    /\ c2.val[60] = 0

\* C21: OfferStatus::try_from(b) succeeds exactly for b in
\* {0x00, 0x01, 0x02, 0x03, 0x04, 0xFF} and fails with ByteConversionError
\* for every other byte; decoding an FwUpdateOfferResponse whose byte 12 is
\* outside that set fails with ByteConversionError.
C21_OfferStatusDecode ==
    /\ (ctype = "OfferStatus" /\ cfirst = "decode" /\ cstage >= 1) =>
          IF c0 \in {0, 1, 2, 3, 4, 255}
              THEN c1.ok
              ELSE c1 = ErrR("ByteConversionError")
    /\ (ctype = "FwUpdateOfferResponse" /\ cfirst = "decode" /\ cstage >= 1
          /\ c0[13] \notin {0, 1, 2, 3, 4, 255}) =>
          c1 = ErrR("ByteConversionError")

C21_Witness ==
    /\ ctype = "FwUpdateOfferResponse"
    /\ cfirst = "decode"
    /\ cstage = 1
    /\ c0[13] = 5
    /\ c0[9] = 2
    /\ c1 = ErrR("ByteConversionError")

\* C22: decoding an FwUpdateOfferInformation buffer fails unless byte 2 is
\* 0xFF (Info) and decoding an FwUpdateOfferExtended buffer fails unless byte
\* 2 is 0xFE (Command); each rejects the other's special id and every
\* ordinary component id.
C22_SpecialIdRequired ==
    /\ (ctype = "FwUpdateOfferInformation" /\ cfirst = "decode" /\ cstage >= 1
          /\ c0[3] # 255) => ~c1.ok
    /\ (ctype = "FwUpdateOfferExtended" /\ cfirst = "decode" /\ cstage >= 1
          /\ c0[3] # 254) => ~c1.ok

C22_Witness ==
    /\ ctype = "FwUpdateOfferInformation"
    /\ cfirst = "decode"
    /\ cstage = 1
    /\ c0[1] = 0
    /\ c0[3] = 254
    /\ ~c1.ok

\* C23: decoding an FwUpdateOfferInformation buffer whose byte 2 is 0xFF
\* accepts every code byte: 0, 1, 2 decode to StartEntireTransaction,
\* StartOfferList, EndOfferList and every other byte b decodes to the
\* vendor-specific code carrying b.
C23_EveryCodeDecodes ==
    (ctype = "FwUpdateOfferInformation" /\ cfirst = "decode" /\ cstage >= 1
        /\ c0[3] = 255) =>
        /\ c1.ok
        /\ c1.val.component_info.code =
              (CASE c0[1] = 0 -> Unit("StartEntireTransaction")
                 [] c0[1] = 1 -> Unit("StartOfferList")
                 [] c0[1] = 2 -> Unit("EndOfferList")
                 [] OTHER -> VendorSpecific(c0[1]))

\* C24: encoding an FwUpdateOffer gives 32 bytes: byte 0 segment_number,
\* byte 1 the flags byte (bit 7 force_ignore_version, bit 6 force_reset),
\* byte 2 component_id, byte 3 the token's byte, byte 4 version variant,
\* bytes 5-6 version minor little endian, byte 7 version major, bytes 8-11
\* vendor_specific little endian, bytes 12-15 misc_and_protocol_version
\* little endian, bytes 16-31 zero.
C24_OfferLayout ==
    (ctype = "FwUpdateOffer" /\ cfirst = "encode" /\ cstage >= 1) =>
        LET b == c1.val
            tok == c0.component_info.token
        IN
        /\ c1.ok
        /\ Len(b) = 32
        /\ b[1] = c0.component_info.segment_number
        /\ ((b[2] \div 128) % 2 = 1) <=> force_ignore_version(c0.component_info.byte1)
        /\ ((b[2] \div 64) % 2 = 1) <=> force_reset(c0.component_info.byte1)
        /\ b[3] = c0.component_info.component_id
        /\ b[4] = (IF tok = Unit("Driver") THEN 160
                   ELSE IF tok = Unit("Tool") THEN 176 ELSE tok.val)
        /\ b[5] = c0.firmware_version.variant
        /\ b[6] + 256 * b[7] = c0.firmware_version.minor
        /\ b[8] = c0.firmware_version.major
        /\ b[9] + 256 * b[10] + 65536 * b[11] + 16777216 * b[12] = c0.vendor_specific
        /\ b[9] = c0.vendor_specific % 256
        /\ b[13] + 256 * b[14] + 65536 * b[15] + 16777216 * b[16]
              = c0.misc_and_protocol_version
        /\ b[13] = c0.misc_and_protocol_version % 256
        /\ \A k \in 17..32 : b[k] = 0

C24_Witness ==
    /\ ctype = "FwUpdateOffer"
    /\ cfirst = "encode"
    /\ cstage >= 1
    /\ c0.component_info.byte1.packed_byte = 192
    /\ c0.component_info.segment_number = 5
    /\ c0.vendor_specific = 305419896
    /\ c0.firmware_version.minor = 4660
    /\ c1.val[2] = 192
    /\ c1.val[9] = 120
    /\ c1.val[12] = 18

\* C30: decoding a 16-byte FwUpdateOfferResponse fails with
\* ByteConversionError if and only if byte 8 is in 0x03..0xDF or byte 12 is
\* not in {0x00..0x04, 0xFF}, whatever the status is; otherwise it succeeds
\* with the token, reject reason and status of bytes 3, 8 and 12, and bytes
\* 0-2, 4-7, 9-11, 13-15 never affect the outcome.
C30_OfferResponseDecode ==
    (ctype = "FwUpdateOfferResponse" /\ cfirst = "decode" /\ cstage >= 1) =>
        IF c0[9] \in 3..223 \/ c0[13] \notin {0, 1, 2, 3, 4, 255}
            THEN c1 = ErrR("ByteConversionError")
            ELSE c1 = OkR([token |->
                               IF c0[4] = 160 THEN Unit("Driver")
                               ELSE IF c0[4] = 176 THEN Unit("Tool")
                               ELSE VendorSpecific(c0[4]),
                           reject_reason |->
                               IF c0[9] = 0 THEN Unit("OldFw")
                               ELSE IF c0[9] = 1 THEN Unit("InvalidComponent")
                               ELSE IF c0[9] = 2 THEN Unit("SwapPending")
                               ELSE VendorSpecific(c0[9]),
                           status |->
                               Unit(IF c0[13] = 255 THEN "CmdNotSupported"
                                    ELSE <<"Skip", "Accept", "Reject", "Busy",
                                           "CommandReady">>[c0[13] + 1]),
                           reserved0 |-> Zeros(3),
                           reserved1 |-> Zeros(4),
                           reserved2 |-> Zeros(3),
                           reserved3 |-> Zeros(3)])

C30_Witness ==
    /\ ctype = "FwUpdateOfferResponse"
    /\ cfirst = "decode"
    /\ cstage = 1
    /\ c0[13] = 1
    /\ c0[9] = 100
    /\ c1 = ErrR("ByteConversionError")

\* C27: whenever write_data_chunks returns Ok(resp), at least one content
\* command was sent and resp is the peer's response to the last one, with
\* status Success; for every image size, images shorter than 52 bytes and
\* empty images included.
C27_OkMeansBlockSent ==
    (pc = "done" /\ result.kind = "Ok") =>
        /\ nsent >= 1
        /\ rx.where = "block"
        /\ result.resp = NewContentResponse(RxSequence, "Success")

\* C28: write_data_chunks first performs one round trip with a 16-byte
\* all-zero command at offset base_offset; no image byte is read and no
\* content command is sent before that round trip has succeeded, its
\* response has decoded and the decoded status is Success; on any of these
\* three failures the call returns an error at once.
C28_InitialExchange ==
    /\ [](pc # "start" =>
            offer_cmds = <<[mem_offset |-> base_offset, bytes |-> Zeros(16)]>>)
    /\ [](rx.where = "none" => (reads = << >> /\ sent = << >> /\ nsent = 0))
    /\ []((rx.where = "offer" /\ RxFailed) =>
            /\ pc = "done"
            /\ result.kind \notin {"Ok", "Pending"}
            /\ reads = << >>
            /\ sent = << >>
            /\ nsent = 0)
    /\ [][(reads' # reads \/ sent' # sent) => (RxReceived /\ RxStatusByte = 0)]_vars

C28_Witness ==
    /\ rx.where = "offer"
    /\ RxNonSuccess
    /\ base_offset = 100
    /\ offer_cmds[1].mem_offset = 100
    /\ pc = "done"
    /\ result = CfuResponseError("ErrorWrite")
    /\ total_bytes >= 52

\* C29: the sequence_num of the i-th content command (counting from 0) is
\* i truncated to 16 bits, and after a run answered with Success throughout
\* the call returns Ok exactly when the last response's sequence equals
\* N = floor(T/52) truncated to 16 bits; so below 65536 chunks the sequence
\* numbers rise by 1 from 0, and from 65536 chunks on they repeat modulo
\* 2^16 and the final check is against N mod 2^16.
C29_SequenceTruncation ==
    /\ [][sent' # sent =>
            (/\ Len(sent') = Len(sent) + 1
             /\ CmdSequenceNum(sent'[Len(sent')]) = nsent % U16)]_vars
    /\ []((nsent = Len(sent) /\ nsent < U16) =>
            \A j \in 1..Len(sent) : CmdSequenceNum(sent[j]) = j - 1)
    /\ []((CleanRun /\ rx.where = "block") =>
            (result.kind = "Ok" <=> RxSequence = num_chunks % U16))

C29_Witness ==
    /\ num_chunks = U16 + 1
    /\ nsent = U16 + 1
    /\ Len(sent) = 1
    /\ CmdSequenceNum(sent[1]) = 0
    /\ CleanRun
    /\ RxSequence = 1
    /\ result.kind = "Ok"


\* C25 as stated: every call of the default on_update_complete returns
\* Ok with the default result value, whether args is absent or present.
C25_AlwaysSuccess ==
    \A j \in 1..Len(calls) :
        calls[j].op = "on_update_complete" => calls[j].ret = OkR(RT_default)

\* C25 (amended): the default on_update_complete changes nothing; it returns
\* Ok with the default result value when args is absent and Err with the
\* default error value when args is present.
C25_DefaultOnUpdateComplete ==
    /\ [](\A j \in 1..Len(calls) :
            calls[j].op = "on_update_complete" =>
                calls[j].ret = IF calls[j].args = None
                               THEN OkR(RT_default)
                               ELSE ErrR(E_default))
    /\ [][(Len(calls') = Len(calls) + 1
            /\ calls'[Len(calls')].op = "on_update_complete")
           => UNCHANGED <<primary, storage_prepare_calls>>]_vars

C25_Witness ==
    /\ Len(calls) >= 2
    /\ calls[1] = [op |-> "on_update_complete", args |-> Some(1),
                   ret |-> ErrR(E_default)]
    /\ calls[2] = [op |-> "on_update_complete", args |-> None,
                   ret |-> OkR(RT_default)]

\* C26: once prepare_components has returned success, storage_prepare() has
\* been invoked on the primary component and on each of its subcomponents.
C26_AllComponentsPrepared ==
    \A j \in 1..Len(calls) :
        (calls[j].op = "prepare_components" /\ calls[j].ret.ok) =>
            ({primary.id} \cup primary.subcomponents)
                \subseteq {storage_prepare_calls[k] :
                               k \in 1..Len(storage_prepare_calls)}


====
